---- MODULE Spec2Model ----
(***************************************************************************)
(* A model of the parser package's unparser (parser/unparser.go) and of    *)
(* its literal unescaper (parser/unescape.go, known here through its       *)
(* tests and the specification).                                           *)
(*                                                                         *)
(* Text is a sequence of runes.  An ASCII rune is the one-character string *)
(* holding it; a rune outside ASCII is named by its code point ("U+00E9"). *)
(* un.str is a byte buffer: its length is the sum of the UTF-8 widths of   *)
(* its runes.  The recursion of un.visit is kept as an explicit            *)
(* continuation (stack): visiting a node replaces it by the writes, pads   *)
(* and visits that its visit function performs, in order.                  *)
(***************************************************************************)
EXTENDS Integers, Sequences, FiniteSets, TLC

VARIABLES
    pc,       \* position of the running call
    expr,     \* Unparse: the expression tree
    info,     \* Unparse: [positions, lineOffsets]
    stack,    \* Unparse: what un.visit still has to do
    str,      \* Unparse: un.str
    ret,      \* Unparse: what the call returned
    token,    \* unescape: the quoted literal
    isBytes,  \* unescape: the mode flag
    value,    \* unescape: the part of the body not yet scanned
    buf,      \* unescape: the units decoded so far
    dret      \* unescape: what the call returned

vars == <<pc, expr, info, stack, str, ret, token, isBytes, value, buf, dret>>

unparseVars == <<expr, info, stack, str, ret>>
unescapeVars == <<token, isBytes, value, buf, dret>>

(***************************************************************************)
(* Bounds of the model.                                                    *)
(***************************************************************************)
\* operator nodes in a tree of binary operators
MaxOps == 3
\* operator nodes in a tree of mixed operators
MaxMixed == 2
\* largest recorded source offset
MaxPos == 4
\* largest recorded line offset
MaxOff == 6
\* line offsets recorded
MaxBreaks == 3
\* pieces (characters or escapes) in a literal body
MaxPieces == 3

Max(a, b) == IF a >= b THEN a ELSE b

RECURSIVE Concat(_)
Concat(ss) == IF ss = <<>> THEN <<>> ELSE Head(ss) \o Concat(Tail(ss))

(***************************************************************************)
(* Runes and the byte length of a strings.Builder.                         *)
(***************************************************************************)
\* the printable ASCII runes, from the space (32) to the tilde (126); the
\* grave accent (96) is named by its code point
AsciiRunes ==
    <<" ", "!", "\"", "#", "$", "%", "&", "'", "(", ")", "*", "+", ",", "-",
      ".", "/", "0", "1", "2", "3", "4", "5", "6", "7", "8", "9", ":", ";",
      "<", "=", ">", "?", "@", "A", "B", "C", "D", "E", "F", "G", "H", "I",
      "J", "K", "L", "M", "N", "O", "P", "Q", "R", "S", "T", "U", "V", "W",
      "X", "Y", "Z", "[", "\\", "]", "^", "_", "U+0060", "a", "b", "c", "d", "e",
      "f", "g", "h", "i", "j", "k", "l", "m", "n", "o", "p", "q", "r", "s",
      "t", "u", "v", "w", "x", "y", "z", "{", "|", "}", "~">>

\* the code point of a rune.  The runes of the model are the printable ASCII
\* runes and the runes named here; no other rune has a code point
CodePoint(r) ==
    CASE r = "U+0001" -> 1
      [] r = "U+0007" -> 7
      [] r = "U+0008" -> 8
      [] r = "\t" -> 9
      [] r = "\n" -> 10
      [] r = "U+000B" -> 11
      [] r = "\f" -> 12
      [] r = "\r" -> 13
      [] r = "U+007F" -> 127
      [] r = "U+0085" -> 133
      [] r = "U+00A0" -> 160
      [] r = "U+00AD" -> 173
      [] r = "U+00BF" -> 191
      [] r = "U+00C3" -> 195
      [] r = "U+00E8" -> 232
      [] r = "U+00E9" -> 233
      [] r = "U+00FF" -> 255
      [] r = "U+263A" -> 9786
      [] r = "U+E000" -> 57344
      [] r = "U+1F600" -> 128512
      [] r = "U+E0001" -> 917505
      [] OTHER -> 31 + (CHOOSE i \in 1..Len(AsciiRunes) : AsciiRunes[i] = r)

\* the runes above 127 that unicode.IsPrint rejects
NonPrintableRunes == {"U+0085", "U+00A0", "U+00AD", "U+E000", "U+E0001"}

\* strconv.IsPrint
IsPrint(r) ==
    /\ CodePoint(r) >= 32 /\ CodePoint(r) # 127
    /\ r \notin NonPrintableRunes

\* the bytes of a rune in UTF-8
RuneLen(r) ==
    LET cp == CodePoint(r)
    IN  IF cp < 128 THEN 1
        ELSE IF cp < 2048 THEN 2
        ELSE IF cp < 65536 THEN 3
        ELSE 4

\* un.str.Len(): bytes, not runes
RECURSIVE StrLen(_)
StrLen(s) == IF s = <<>> THEN 0 ELSE RuneLen(Head(s)) + StrLen(Tail(s))

(***************************************************************************)
(* common/operators: the operator names, their symbols and precedence.     *)
(***************************************************************************)
Conditional == <<"_", "?", "_", ":", "_">>
LogicalAnd == <<"_", "&", "&", "_">>
LogicalOr == <<"_", "|", "|", "_">>
LogicalNot == <<"!", "_">>
Equals == <<"_", "=", "=", "_">>
NotEquals == <<"_", "!", "=", "_">>
Less == <<"_", "<", "_">>
LessEquals == <<"_", "<", "=", "_">>
Greater == <<"_", ">", "_">>
GreaterEquals == <<"_", ">", "=", "_">>
Add == <<"_", "+", "_">>
Subtract == <<"_", "-", "_">>
Multiply == <<"_", "*", "_">>
Divide == <<"_", "/", "_">>
Modulo == <<"_", "%", "_">>
Negate == <<"-", "_">>
Index == <<"_", "[", "_", "]">>
In == <<"@", "i", "n">>
OldIn == <<"_", "i", "n", "_">>

BinaryOperators ==
    {Add, Divide, Equals, Greater, GreaterEquals, In, Less, LessEquals,
     LogicalAnd, LogicalOr, Modulo, Multiply, NotEquals, OldIn, Subtract}

UnaryOperators == {LogicalNot, Negate}

\* operators.FindReverse: the symbol of an operator, <<>> when not found
FindReverse(fun) ==
    CASE fun = Add -> <<"+">>
      [] fun = Divide -> <<"/">>
      [] fun = Equals -> <<"=", "=">>
      [] fun = Greater -> <<">">>
      [] fun = GreaterEquals -> <<">", "=">>
      [] fun = In -> <<"i", "n">>
      [] fun = Less -> <<"<">>
      [] fun = LessEquals -> <<"<", "=">>
      [] fun = LogicalAnd -> <<"&", "&">>
      [] fun = LogicalNot -> <<"!">>
      [] fun = LogicalOr -> <<"|", "|">>
      [] fun = Modulo -> <<"%">>
      [] fun = Multiply -> <<"*">>
      [] fun = Negate -> <<"-">>
      [] fun = NotEquals -> <<"!", "=">>
      [] fun = OldIn -> <<"i", "n">>
      [] fun = Subtract -> <<"-">>
      [] OTHER -> <<>>

\* operators.Precedence: a larger number binds looser; 0 for a name that is
\* no operator
Precedence(fun) ==
    CASE fun = Conditional -> 8
      [] fun = LogicalOr -> 7
      [] fun = LogicalAnd -> 6
      [] fun \in {Equals, Greater, GreaterEquals, In, Less, LessEquals,
                  NotEquals, OldIn} -> 5
      [] fun \in {Add, Subtract} -> 4
      [] fun \in {Divide, Modulo, Multiply} -> 3
      [] fun \in {LogicalNot, Negate} -> 2
      [] fun = Index -> 1
      [] OTHER -> 0

(***************************************************************************)
(* Expression trees (exprpb.Expr).                                         *)
(***************************************************************************)
NoExpr == [kind |-> "nil"]

IdentExpr(id, name) == [kind |-> "ident", id |-> id, name |-> name]

ConstExpr(id, ckind, val) ==
    [kind |-> "const", id |-> id, ckind |-> ckind, val |-> val]

CallExpr(id, fun, target, args) ==
    [kind |-> "call", id |-> id, function |-> fun, target |-> target,
     args |-> args]

ListExpr(id, elems) == [kind |-> "list", id |-> id, elements |-> elems]

SelectExpr(id, operand, field, testOnly) ==
    [kind |-> "select", id |-> id, operand |-> operand, field |-> field,
     testOnly |-> testOnly]

Entry(id, fieldKey, mapKey, val) ==
    [id |-> id, fieldKey |-> fieldKey, mapKey |-> mapKey, value |-> val]

StructExpr(id, messageName, entries) ==
    [kind |-> "struct", id |-> id, messageName |-> messageName,
     entries |-> entries]

ComprehensionExpr(id) == [kind |-> "comprehension", id |-> id]

\* an Expr whose ExprKind is not set
UnsetExpr(id) == [kind |-> "unset", id |-> id]

(***************************************************************************)
(* What un.visit has to do: the entries of the continuation.               *)
(***************************************************************************)
Visit(e) == [op |-> "visit", e |-> e]
Write(s) == [op |-> "write", s |-> s]
PadTo(id) == [op |-> "pad", id |-> id]
Fail(msg) == [op |-> "error", msg |-> msg]
OutOfRange == [op |-> "panic"]
NilDereference == [op |-> "panic", nil |-> TRUE]

\* a slip of isLeftRecursive: no operator taken as left recursive
isLeftRecursiveNever(op) == FALSE

\* isLeftRecursive
isLeftRecursive(op) == op # LogicalAnd /\ op # LogicalOr

\* a slip of isSamePrecedence: the comparison of isLowerPrecedence
isSamePrecedenceLess(op, e) ==
    IF e.kind # "call" THEN FALSE
    ELSE Precedence(op) < Precedence(e.function)

\* isSamePrecedence
isSamePrecedence(op, e) ==
    IF e.kind # "call" THEN FALSE
    ELSE Precedence(op) = Precedence(e.function)

\* a slip of isLowerPrecedence: <= for <
isLowerPrecedenceOrSame(op, e) ==
    IF e.kind # "call" THEN FALSE
    ELSE Precedence(op) <= Precedence(e.function)

\* isLowerPrecedence
isLowerPrecedence(op, e) ==
    IF e.kind # "call" THEN FALSE
    ELSE Precedence(op) < Precedence(e.function)

\* visitMaybeNested
visitMaybeNested(e, nested) ==
    IF nested THEN <<Write(<<"(">>), Visit(e), Write(<<")">>)>>
    ELSE <<Visit(e)>>

\* visitCallBinary: args[0] and args[1] are read before anything is written
visitCallBinary(e) ==
    IF Len(e.args) < 2 THEN <<OutOfRange>>
    ELSE LET fun == e.function
             lhs == e.args[1]
             rhs == e.args[2]
             lhsParen == isLowerPrecedence(fun, lhs)
             rhsParen == \/ isLowerPrecedence(fun, rhs)
                         \/ isLeftRecursive(fun) /\ isSamePrecedence(fun, rhs)
             unmangled == FindReverse(fun)
         IN  visitMaybeNested(lhs, lhsParen)
             \o (IF unmangled = <<>>
                 THEN <<Fail("cannot unmangle operator")>>
                 ELSE <<Write(<<" ">>), PadTo(e.id), Write(unmangled),
                        Write(<<" ">>)>>
                      \o visitMaybeNested(rhs, rhsParen))

\* visitCallConditional: args[k] is read just before it is visited
visitCallConditional(e) ==
    LET n == Len(e.args)
        nested(k) == isSamePrecedence(Conditional, e.args[k])
    IN  IF n < 1 THEN <<OutOfRange>>
        ELSE visitMaybeNested(e.args[1], nested(1))
             \o <<PadTo(e.id), Write(<<"?", " ">>)>>
             \o (IF n < 2 THEN <<OutOfRange>>
                 ELSE visitMaybeNested(e.args[2], nested(2))
                      \o <<Write(<<" ", ":", " ">>)>>
                      \o (IF n < 3 THEN <<OutOfRange>>
                          ELSE visitMaybeNested(e.args[3], nested(3))))

\* the loops of visitCallFunc and visitList: each element, a separator
\* after all but the last
RECURSIVE VisitAll(_, _)
VisitAll(es, sep) ==
    IF es = <<>> THEN <<>>
    ELSE <<Visit(Head(es))>>
         \o (IF Len(es) > 1 THEN <<Write(sep)>> ELSE <<>>)
         \o VisitAll(Tail(es), sep)

\* visitCallFunc
visitCallFunc(e) ==
    (IF e.target # NoExpr THEN <<Visit(e.target), Write(<<".">>)>> ELSE <<>>)
    \o <<Write(e.function), PadTo(e.id), Write(<<"(">>)>>
    \o VisitAll(e.args, <<",">>)
    \o <<Write(<<")">>)>>

\* visitCallIndex
visitCallIndex(e) ==
    IF Len(e.args) < 1 THEN <<OutOfRange>>
    ELSE <<Visit(e.args[1]), PadTo(e.id), Write(<<"[">>)>>
         \o (IF Len(e.args) < 2 THEN <<OutOfRange>>
             ELSE <<Visit(e.args[2]), Write(<<"]">>)>>)

\* visitCallUnary
visitCallUnary(e) ==
    LET unmangled == FindReverse(e.function)
    IN  <<PadTo(e.id)>>
        \o (IF unmangled = <<>>
            THEN <<Fail("cannot unmangle operator")>>
            ELSE <<Write(unmangled)>>
                 \o (IF Len(e.args) < 1 THEN <<OutOfRange>>
                     ELSE <<Visit(e.args[1])>>))

\* visitCall
visitCall(e) ==
    CASE e.function = Conditional -> visitCallConditional(e)
      [] e.function = Index -> visitCallIndex(e)
      [] e.function \in UnaryOperators -> visitCallUnary(e)
      [] e.function \in BinaryOperators -> visitCallBinary(e)
      [] OTHER -> visitCallFunc(e)

\* visitComprehension
visitComprehension(e) == <<Fail("unimplemented")>>

\* strconv.FormatInt / FormatUint in base 10
Digit(d) == <<"0", "1", "2", "3", "4", "5", "6", "7", "8", "9">>[d + 1]

RECURSIVE FormatUint(_)
FormatUint(n) ==
    IF n < 10 THEN <<Digit(n)>>
    ELSE FormatUint(n \div 10) \o <<Digit(n % 10)>>

FormatInt(i) == IF i < 0 THEN <<"-">> \o FormatUint(-i) ELSE FormatUint(i)

\* strconv.FormatFloat(d, 'g', -1, 64).  A double is held as its class and,
\* when finite, its sign and shortest decimal: the digits digs and the
\* place dp of the decimal point (0.d1d2...dn * 10^dp; zero has no digit)
NaN == [class |-> "nan"]
Inf(neg) == [class |-> "inf", neg |-> neg]
Double(neg, digs, dp) ==
    [class |-> "finite", neg |-> neg, digs |-> digs, dp |-> dp]

Zeros(n) == [i \in 1..n |-> "0"]

\* %e: d.ddde+dd, prec digits after the point
FmtE(d, prec) ==
    LET nd == Len(d.digs)
        m == IF nd < prec + 1 THEN nd ELSE prec + 1
        exp == IF nd = 0 THEN 0 ELSE d.dp - 1
        abs == IF exp < 0 THEN -exp ELSE exp
    IN  <<IF nd # 0 THEN Digit(d.digs[1]) ELSE "0">>
        \o (IF prec > 0
            THEN <<".">> \o [i \in 1..(m - 1) |-> Digit(d.digs[i + 1])]
                 \o Zeros(prec + 1 - Max(m, 1))
            ELSE <<>>)
        \o <<"e", IF exp < 0 THEN "-" ELSE "+">>
        \o (IF abs < 10 THEN <<"0">> ELSE <<>>) \o FormatUint(abs)

\* %f: ddd.ddd, prec digits after the point
FmtF(d, prec) ==
    LET nd == Len(d.digs)
    IN  (IF d.dp > 0
         THEN [i \in 1..d.dp |-> IF i <= nd THEN Digit(d.digs[i]) ELSE "0"]
         ELSE <<"0">>)
        \o (IF prec > 0
            THEN <<".">>
                 \o [i \in 1..prec |->
                        IF d.dp + i >= 1 /\ d.dp + i <= nd
                        THEN Digit(d.digs[d.dp + i]) ELSE "0"]
            ELSE <<>>)

\* %e is used if the exponent is less than -4 or, for the shortest
\* digits, at least 6
FormatFloat(d) ==
    IF d.class = "nan" THEN <<"N", "a", "N">>
    ELSE IF d.class = "inf"
    THEN <<IF d.neg THEN "-" ELSE "+", "I", "n", "f">>
    ELSE LET nd == Len(d.digs)
             exp == d.dp - 1
         IN  (IF d.neg THEN <<"-">> ELSE <<>>)
             \o (IF exp < -4 \/ exp >= 6
                 THEN FmtE(d, nd - 1)
                 ELSE FmtF(d, Max(nd - d.dp, 0)))

\* strconv.Quote: double quotes around the text; the quote and the
\* backslash are escaped, a printable rune, ASCII or not, is written as it
\* is, and any other rune is escaped: \a \b \f \n \r \t \v, \x and two
\* digits below the space and for DEL, \u and four digits below 0x10000,
\* \U and eight digits above.  The text is a sequence of runes (valid
\* UTF-8)
LowerHexDigits ==
    <<"0", "1", "2", "3", "4", "5", "6", "7", "8", "9",
      "a", "b", "c", "d", "e", "f">>

RECURSIVE HexString(_, _)
HexString(n, width) ==
    IF width = 0 THEN <<>>
    ELSE HexString(n \div 16, width - 1) \o <<LowerHexDigits[(n % 16) + 1]>>

QuoteRune(r) ==
    LET cp == CodePoint(r)
    IN  IF r = "\"" \/ r = "\\" THEN <<"\\", r>>
        ELSE IF IsPrint(r) THEN <<r>>
        ELSE IF cp = 7 THEN <<"\\", "a">>
        ELSE IF cp = 8 THEN <<"\\", "b">>
        ELSE IF cp = 12 THEN <<"\\", "f">>
        ELSE IF cp = 10 THEN <<"\\", "n">>
        ELSE IF cp = 13 THEN <<"\\", "r">>
        ELSE IF cp = 9 THEN <<"\\", "t">>
        ELSE IF cp = 11 THEN <<"\\", "v">>
        ELSE IF cp < 32 \/ cp = 127 THEN <<"\\", "x">> \o HexString(cp, 2)
        ELSE IF cp < 65536 THEN <<"\\", "u">> \o HexString(cp, 4)
        ELSE <<"\\", "U">> \o HexString(cp, 8)

RECURSIVE QuoteBody(_)
QuoteBody(s) ==
    IF s = <<>> THEN <<>> ELSE QuoteRune(Head(s)) \o QuoteBody(Tail(s))

Quote(s) == <<"\"">> \o QuoteBody(s) \o <<"\"">>

\* visitConst
visitConst(e) ==
    <<PadTo(e.id)>>
    \o (CASE e.ckind = "bool" ->
                <<Write(IF e.val THEN <<"t", "r", "u", "e">>
                        ELSE <<"f", "a", "l", "s", "e">>)>>
          [] e.ckind = "bytes" ->
                <<Write(<<"b", "\"">>), Write(e.val), Write(<<"\"">>)>>
          [] e.ckind = "double" -> <<Write(FormatFloat(e.val))>>
          [] e.ckind = "int64" -> <<Write(FormatInt(e.val))>>
          [] e.ckind = "null" -> <<Write(<<"n", "u", "l", "l">>)>>
          [] e.ckind = "string" -> <<Write(Quote(e.val))>>
          [] e.ckind = "uint64" ->
                <<Write(FormatUint(e.val)), Write(<<"u">>)>>
          [] OTHER -> <<Fail("unimplemented")>>)

\* visitIdent
visitIdent(e) == <<PadTo(e.id), Write(e.name)>>

\* visitList
visitList(e) ==
    <<PadTo(e.id), Write(<<"[">>)>>
    \o VisitAll(e.elements, <<",">>)
    \o <<Write(<<"]">>)>>

\* visitSelect
visitSelect(e) ==
    (IF e.testOnly THEN <<Write(<<"h", "a", "s", "(">>)>> ELSE <<>>)
    \o <<Visit(e.operand), PadTo(e.id), Write(<<".">>), Write(e.field)>>
    \o (IF e.testOnly THEN <<Write(<<")">>)>> ELSE <<>>)

\* visitStructMsg
RECURSIVE MsgEntries(_)
MsgEntries(es) ==
    IF es = <<>> THEN <<>>
    ELSE <<Write(Head(es).fieldKey), PadTo(Head(es).id),
           Write(<<":", " ">>), Visit(Head(es).value)>>
         \o (IF Len(es) > 1 THEN <<Write(<<",", " ">>)>> ELSE <<>>)
         \o MsgEntries(Tail(es))

visitStructMsg(e) ==
    <<Write(e.messageName), PadTo(e.id), Write(<<"{">>)>>
    \o MsgEntries(e.entries)
    \o <<Write(<<"}">>)>>

\* visitStructMap
RECURSIVE MapEntries(_)
MapEntries(es) ==
    IF es = <<>> THEN <<>>
    ELSE <<Visit(Head(es).mapKey), PadTo(Head(es).id),
           Write(<<":", " ">>), Visit(Head(es).value)>>
         \o (IF Len(es) > 1 THEN <<Write(<<",", " ">>)>> ELSE <<>>)
         \o MapEntries(Tail(es))

visitStructMap(e) ==
    <<PadTo(e.id), Write(<<"{">>)>>
    \o MapEntries(e.entries)
    \o <<Write(<<"}">>)>>

\* visitStruct
visitStruct(e) ==
    IF e.messageName # <<>> THEN visitStructMsg(e) ELSE visitStructMap(e)

\* visit: the dispatch on the kind of the node; expr.ExprKind of a nil
\* expression is a nil pointer dereference
visit(e) ==
    CASE e.kind = "call" -> visitCall(e)
      [] e.kind = "comprehension" -> visitComprehension(e)
      [] e.kind = "const" -> visitConst(e)
      [] e.kind = "ident" -> visitIdent(e)
      [] e.kind = "list" -> visitList(e)
      [] e.kind = "select" -> visitSelect(e)
      [] e.kind = "struct" -> visitStruct(e)
      [] e.kind = "nil" -> <<NilDereference>>
      [] OTHER -> <<Fail("unsupported expr")>>

\* pos: a map read of an absent key gives 0
pos(id) == IF id \in DOMAIN info.positions THEN info.positions[id] ELSE 0

\* pad: spaces while the byte length of un.str is below the offset
Spaces(n) == [i \in 1..n |-> " "]

pad(s, id) ==
    LET last == StrLen(s)
        next == pos(id)
    IN  IF last < next THEN s \o Spaces(next - last) ELSE s
(***************************************************************************)
(* Unparse, after un.visit: the line breaks.                               *)
(***************************************************************************)
\* the inner loop of Unparse for one line offset: the scan starts at index
\* br-1 (i counts from 0); reading txt[-1] is out of range
RECURSIVE ScanBreak(_, _)
ScanBreak(txt, i) ==
    IF ~(i < Len(txt)) THEN [panic |-> FALSE, txt |-> txt]
    ELSE IF i < 0 THEN [panic |-> TRUE, txt |-> txt]
    ELSE IF txt[i + 1] = " "
         THEN [panic |-> FALSE, txt |-> [txt EXCEPT ![i + 1] = "\n"]]
         ELSE ScanBreak(txt, i + 1)

\* a slip of the outer loop: the scan started at br, not at br-1
RECURSIVE ApplyBreaksAtOffset(_, _)
ApplyBreaksAtOffset(txt, breaks) ==
    IF breaks = <<>> THEN [panic |-> FALSE, txt |-> txt]
    ELSE LET r == ScanBreak(txt, Head(breaks))
         IN  IF r.panic THEN r ELSE ApplyBreaksAtOffset(r.txt, Tail(breaks))

\* the outer loop of Unparse: the line offsets in the order recorded
RECURSIVE ApplyBreaks(_, _)
ApplyBreaks(txt, breaks) ==
    IF breaks = <<>> THEN [panic |-> FALSE, txt |-> txt]
    ELSE LET r == ScanBreak(txt, Head(breaks) - 1)
         IN  IF r.panic THEN r ELSE ApplyBreaks(r.txt, Tail(breaks))

NoResult == [kind |-> "none", text |-> <<>>, msg |-> ""]
Returned(text) == [kind |-> "ok", text |-> text, msg |-> ""]
ReturnedError(msg) == [kind |-> "error", text |-> <<>>, msg |-> msg]
Panicked == [kind |-> "panic", text |-> <<>>, msg |-> "index out of range"]
NilPanicked ==
    [kind |-> "panic", text |-> <<>>, msg |-> "nil pointer dereference"]

\* Unparse, once un.visit has returned nil
UnparseResult(s, breaks) ==
    IF Len(breaks) <= 1 THEN Returned(s)
    ELSE LET r == ApplyBreaks(s, breaks)
         IN  IF r.panic THEN Panicked ELSE Returned(r.txt)

\* a slip of Unparse: the text written so far returned with the error
UnparseErrorPartial(s, msg) == [kind |-> "error", text |-> s, msg |-> msg]

\* Unparse, when un.visit has returned an error
UnparseError(s, msg) == ReturnedError(msg)

(***************************************************************************)
(* The steps of a call of Unparse.                                         *)
(***************************************************************************)
Top == Head(stack)

\* un.visit(expr): the node is replaced by what its visit function does
VisitNode ==
    /\ pc = "visit" /\ stack # <<>> /\ Top.op = "visit"
    /\ stack' = visit(Top.e) \o Tail(stack)
    /\ UNCHANGED <<pc, expr, info, str, ret>>
    /\ UNCHANGED unescapeVars

\* un.str.WriteString
WriteString ==
    /\ pc = "visit" /\ stack # <<>> /\ Top.op = "write"
    /\ str' = str \o Top.s
    /\ stack' = Tail(stack)
    /\ UNCHANGED <<pc, expr, info, ret>>
    /\ UNCHANGED unescapeVars

\* un.pad(id)
Pad ==
    /\ pc = "visit" /\ stack # <<>> /\ Top.op = "pad"
    /\ str' = pad(str, Top.id)
    /\ stack' = Tail(stack)
    /\ UNCHANGED <<pc, expr, info, ret>>
    /\ UNCHANGED unescapeVars

\* a visit function returns an error: every caller returns it, and Unparse
\* returns "" with it
VisitError ==
    /\ pc = "visit" /\ stack # <<>> /\ Top.op = "error"
    /\ ret' = UnparseError(str, Top.msg)
    /\ pc' = "done"
    /\ stack' = <<>>
    /\ UNCHANGED <<expr, info, str>>
    /\ UNCHANGED unescapeVars

\* args[k] of a call that has no such argument, or the visit of a nil
\* expression: the call of Unparse panics
VisitPanic ==
    /\ pc = "visit" /\ stack # <<>> /\ Top.op = "panic"
    /\ ret' = IF Top = NilDereference THEN NilPanicked ELSE Panicked
    /\ pc' = "done"
    /\ stack' = <<>>
    /\ UNCHANGED <<expr, info, str>>
    /\ UNCHANGED unescapeVars

\* un.visit returned nil: the line breaks are applied and the text returned
UnparseReturn ==
    /\ pc = "visit" /\ stack = <<>>
    /\ ret' = UnparseResult(str, info.lineOffsets)
    /\ pc' = "done"
    /\ UNCHANGED <<expr, info, stack, str>>
    /\ UNCHANGED unescapeVars

(***************************************************************************)
(* The inputs of Unparse.                                                  *)
(***************************************************************************)
Names == <<"a", "b", "c", "d", "e", "f", "g", "h">>
NameAt(k) == <<Names[((k - 1) % Len(Names)) + 1]>>

Leaf(k) == IdentExpr(0, NameAt(k))
Op1(fun, x) == CallExpr(0, fun, NoExpr, <<x>>)
Op2(fun, x, y) == CallExpr(0, fun, NoExpr, <<x, y>>)
Op3(fun, x, y, z) == CallExpr(0, fun, NoExpr, <<x, y, z>>)

\* the binary operators of the trees of binary operators: three levels of
\* the grammar, two operators on one of them
BinFamilyOps == {Add, Subtract, Multiply, Equals}

\* the trees of n binary operators whose leaves are named, left to right,
\* from the f-th name on
RECURSIVE BinTreesFrom(_, _)
BinTreesFrom(n, f) ==
    IF n = 0 THEN {Leaf(f)}
    ELSE UNION {{Op2(fun, l, r) : fun \in BinFamilyOps,
                                  l \in BinTreesFrom(i, f),
                                  r \in BinTreesFrom(n - 1 - i, f + i + 1)} :
                i \in 0..(n - 1)}

BinTrees == UNION {BinTreesFrom(n, 1) : n \in 0..MaxOps}

\* the trees of n operators of every kind, every leaf "a"
MixBinOps == {Add, Subtract, Multiply, LogicalAnd, LogicalOr, Index}
MixUnaryOps == {Negate, LogicalNot, <<"f">>}

RECURSIVE MixShapes(_)
MixShapes(n) ==
    IF n = 0 THEN {Leaf(1)}
    ELSE UNION {{Op2(fun, l, r) : fun \in MixBinOps, l \in MixShapes(i),
                                  r \in MixShapes(n - 1 - i)} :
                i \in 0..(n - 1)}
         \cup {Op1(fun, x) : fun \in MixUnaryOps, x \in MixShapes(n - 1)}
         \cup UNION {{Op3(Conditional, x, y, z) :
                          x \in MixShapes(ij[1]), y \in MixShapes(ij[2]),
                          z \in MixShapes(n - 1 - ij[1] - ij[2])} :
                     ij \in {p \in (0..(n - 1)) \X (0..(n - 1)) :
                                 p[1] + p[2] <= n - 1}}

\* the leaves renamed a, b, c, ... from left to right
RECURSIVE Relabel(_, _), RelabelArgs(_, _)
Relabel(t, k) ==
    IF t.kind = "ident" THEN [t |-> Leaf(k), k |-> k + 1]
    ELSE LET r == RelabelArgs(t.args, k)
         IN  [t |-> [t EXCEPT !.args = r.ts], k |-> r.k]
RelabelArgs(ts, k) ==
    IF ts = <<>> THEN [ts |-> <<>>, k |-> k]
    ELSE LET h == Relabel(Head(ts), k)
             r == RelabelArgs(Tail(ts), h.k)
         IN  [ts |-> <<h.t>> \o r.ts, k |-> r.k]

MixTrees == {Relabel(t, 1).t : t \in UNION {MixShapes(n) : n \in 1..MaxMixed}}

NoInfo == [positions |-> <<>>, lineOffsets |-> <<>>]

\* trees that hold a comprehension, a call short of arguments, or a node
\* of no kind
A == IdentExpr(1, <<"a">>)
B == IdentExpr(2, <<"b">>)
Comp == ComprehensionExpr(9)
Short1 == CallExpr(8, Negate, NoExpr, <<>>)
ComprehensionTrees ==
    {Comp,
     CallExpr(3, <<"f">>, NoExpr, <<A, Comp>>),
     CallExpr(3, <<"f">>, Comp, <<A>>),
     ListExpr(3, <<A, Comp, B>>),
     SelectExpr(3, Comp, <<"x">>, FALSE),
     SelectExpr(3, Comp, <<"x">>, TRUE),
     StructExpr(3, <<"M">>, <<Entry(4, <<"x">>, NoExpr, A),
                             Entry(5, <<"y">>, NoExpr, Comp)>>),
     StructExpr(3, <<>>, <<Entry(4, <<>>, A, Comp)>>),
     StructExpr(3, <<>>, <<Entry(4, <<>>, Comp, A)>>),
     CallExpr(3, Add, NoExpr, <<A, Comp>>),
     CallExpr(3, Add, NoExpr, <<Comp, A>>),
     CallExpr(3, Conditional, NoExpr, <<A, B, Comp>>),
     CallExpr(3, Negate, NoExpr, <<Comp>>),
     CallExpr(3, Index, NoExpr, <<A, Comp>>),
     CallExpr(3, <<"f">>, NoExpr,
              <<ListExpr(4, <<CallExpr(5, Add, NoExpr, <<A, Comp>>)>>)>>),
     ListExpr(3, <<A, Short1, Comp>>)}

MalformedTrees ==
    {CallExpr(3, Add, NoExpr, <<>>),
     CallExpr(3, Subtract, NoExpr, <<A>>),
     CallExpr(3, Conditional, NoExpr, <<>>),
     CallExpr(3, Conditional, NoExpr, <<A>>),
     CallExpr(3, Conditional, NoExpr, <<A, B>>),
     CallExpr(3, Index, NoExpr, <<>>),
     CallExpr(3, Index, NoExpr, <<A>>),
     CallExpr(3, LogicalNot, NoExpr, <<>>),
     Short1,
     CallExpr(3, <<"f">>, NoExpr, <<A, CallExpr(4, Multiply, NoExpr, <<B>>)>>),
     ListExpr(3, <<A, CallExpr(4, Index, NoExpr, <<B>>)>>)}

OtherTrees ==
    {UnsetExpr(3),
     ListExpr(3, <<A, UnsetExpr(4)>>),
     ConstExpr(3, "unset", 0),
     ConstExpr(3, "bool", TRUE),
     ConstExpr(3, "bool", FALSE),
     ConstExpr(3, "null", 0),
     ConstExpr(3, "int64", -120),
     ConstExpr(3, "int64", 7),
     ConstExpr(3, "uint64", 42),
     ConstExpr(3, "bytes", <<"a", "U+00E9">>),
     ConstExpr(3, "string", <<"a", "\"", "\\", "\n", "U+00E9">>),
     ConstExpr(3, "string", <<"a", "\r", "b">>),
     ConstExpr(3, "string", <<"\f", "\t", "U+0007", "U+0008", "U+000B">>),
     ConstExpr(3, "string", <<"U+0001", "U+007F", "U+0085", "U+00A0">>),
     ConstExpr(3, "string", <<"U+00AD", "U+E000", "U+E0001", "U+1F600">>),
     ConstExpr(3, "string", <<"U+263A", "U+00E8", "U+0060", "'">>),
     ConstExpr(3, "double", Double(FALSE, <<>>, 0)),
     ConstExpr(3, "double", Double(TRUE, <<>>, 0)),
     ConstExpr(3, "double", Double(FALSE, <<1>>, 1)),
     ConstExpr(3, "double", Double(TRUE, <<2, 5>>, 1)),
     ConstExpr(3, "double", Double(FALSE, <<1>>, -2)),
     ConstExpr(3, "double", Double(FALSE, <<1>>, -4)),
     ConstExpr(3, "double", Double(FALSE, <<1, 2, 3, 4, 5, 6>>, 6)),
     ConstExpr(3, "double", Double(FALSE, <<1>>, 7)),
     ConstExpr(3, "double", Double(FALSE, <<1, 5>>, 301)),
     ConstExpr(3, "double", Double(TRUE, <<1, 2, 5>>, -9)),
     ConstExpr(3, "double", NaN),
     ConstExpr(3, "double", Inf(FALSE)),
     ConstExpr(3, "double", Inf(TRUE)),
     ListExpr(3, <<ConstExpr(4, "double", Double(FALSE, <<>>, 0)), A>>),
     ListExpr(3, <<>>),
     CallExpr(3, <<"f">>, NoExpr, <<>>),
     CallExpr(3, <<"f">>, A, <<B, A>>),
     SelectExpr(3, SelectExpr(2, A, <<"b">>, FALSE), <<"c">>, TRUE),
     StructExpr(3, <<"M">>, <<Entry(4, <<"x">>, NoExpr, A),
                             Entry(5, <<"y">>, NoExpr, B)>>),
     StructExpr(3, <<>>, <<Entry(4, <<>>, A, B), Entry(5, <<>>, B, A)>>)}

\* trees that hold a nil expression: at the root, among the arguments, as
\* the operand of a select, the value of a field and the key of a map
NilTrees ==
    {NoExpr,
     CallExpr(3, <<"f">>, NoExpr, <<A, NoExpr>>),
     SelectExpr(3, NoExpr, <<"x">>, FALSE),
     StructExpr(3, <<"M">>, <<Entry(4, <<"x">>, NoExpr, NoExpr)>>),
     StructExpr(3, <<>>, <<Entry(4, <<>>, NoExpr, A)>>),
     ListExpr(3, <<A, NoExpr, Comp>>)}

\* trees whose text holds a rune of three or four bytes before a padded
\* node (id 3), and the recorded offsets of that node
WideRuneTrees ==
    {ListExpr(1, <<IdentExpr(2, <<"U+263A">>), IdentExpr(3, <<"b">>)>>),
     CallExpr(1, <<"f">>, NoExpr,
              <<ConstExpr(2, "string", <<"U+263A">>), IdentExpr(3, <<"b">>)>>),
     ListExpr(1, <<IdentExpr(2, <<"U+1F600">>), IdentExpr(3, <<"b">>)>>),
     ListExpr(1, <<IdentExpr(2, <<"U+00E8">>), IdentExpr(3, <<"b">>)>>)}
WideRunePositions == [{3} -> 0..(MaxPos + 4)]

\* trees whose text is padded: the names and the string literal may hold
\* a rune of two bytes
PadNames == {<<"a">>, <<"U+00E9">>, <<"a", "U+00E9">>}
PadIds == {1, 2, 3}
PadTrees ==
    {IdentExpr(1, n) : n \in PadNames}
    \cup {CallExpr(1, Add, NoExpr, <<IdentExpr(2, n), IdentExpr(3, m)>>) :
              n \in PadNames, m \in PadNames}
    \cup {CallExpr(1, <<"f">>, NoExpr,
                   <<ConstExpr(2, "string", n), IdentExpr(3, m)>>) :
              n \in PadNames, m \in PadNames}

\* the position maps: any of the ids may have no recorded offset
PadPositions == UNION {[D -> 0..MaxPos] : D \in SUBSET PadIds}

\* a conditional call (id 1) and the position maps of its node: no recorded
\* offset, an offset the text has passed when the condition is written, and
\* an offset ahead of it
ConditionalTree ==
    CallExpr(1, Conditional, NoExpr,
             <<IdentExpr(2, <<"a">>), IdentExpr(3, <<"b">>),
               IdentExpr(4, <<"c">>)>>)
ConditionalPositions == UNION {[D -> 0..MaxPos] : D \in SUBSET {1}}

\* trees and positions whose text holds spaces, and the line offsets
BreakInputs ==
    {[e |-> CallExpr(1, Add, NoExpr, <<IdentExpr(2, <<"a">>),
                                        IdentExpr(3, <<"b">>)>>),
      p |-> <<>>],
     [e |-> CallExpr(1, Add, NoExpr, <<IdentExpr(2, <<"a">>),
                                        IdentExpr(3, <<"b">>)>>),
      p |-> (1 :> 3)],
     [e |-> IdentExpr(1, <<"a">>), p |-> (1 :> 2)],
     [e |-> CallExpr(1, <<"f">>, NoExpr, <<IdentExpr(2, <<"a">>),
                                            IdentExpr(3, <<"b">>)>>),
      p |-> <<>>]}

RECURSIVE SeqsUpTo(_, _)
SeqsUpTo(S, n) ==
    IF n = 0 THEN {<<>>}
    ELSE LET shorter == SeqsUpTo(S, n - 1)
         IN  shorter \cup {<<x>> \o s : x \in S,
                                       s \in {t \in shorter : Len(t) = n - 1}}

LineOffsets == SeqsUpTo(0..MaxOff, MaxBreaks)

UnparseInputs ==
    {[e |-> t, i |-> NoInfo] :
         t \in BinTrees \cup MixTrees \cup ComprehensionTrees
               \cup MalformedTrees \cup OtherTrees \cup NilTrees}
    \cup {[e |-> t, i |-> [positions |-> p, lineOffsets |-> <<>>]] :
              t \in WideRuneTrees, p \in WideRunePositions}
    \cup {[e |-> t, i |-> [positions |-> p, lineOffsets |-> <<>>]] :
              t \in PadTrees, p \in PadPositions}
    \cup {[e |-> ConditionalTree,
           i |-> [positions |-> p, lineOffsets |-> <<>>]] :
              p \in ConditionalPositions}
    \cup {[e |-> b.e, i |-> [positions |-> b.p, lineOffsets |-> l]] :
              b \in BreakInputs, l \in LineOffsets}

\* Unparse(expr, info): un := &unparser{info: info}; un.visit(expr)
Init ==
    /\ \E in \in UnparseInputs : expr = in.e /\ info = in.i
    /\ pc = "visit"
    /\ stack = <<Visit(expr)>>
    /\ str = <<>>
    /\ ret = NoResult
    /\ token = <<>> /\ isBytes = FALSE /\ value = <<>> /\ buf = <<>>
    /\ dret = NoResult

Next ==
    \/ VisitNode
    \/ WriteString
    \/ Pad
    \/ VisitError
    \/ VisitPanic
    \/ UnparseReturn

Spec == Init /\ [][Next]_vars
(***************************************************************************)
(* The grammar the text is read back with: the levels of the operators,    *)
(* loosest first, and a parser of the binary levels, each left             *)
(* associative.                                                            *)
(***************************************************************************)
BindingLevel(fun) ==
    CASE fun = Conditional -> 1
      [] fun = LogicalOr -> 2
      [] fun = LogicalAnd -> 3
      [] fun \in {Equals, NotEquals, Less, LessEquals, Greater,
                  GreaterEquals, In, OldIn} -> 4
      [] fun \in {Add, Subtract} -> 5
      [] fun \in {Multiply, Divide, Modulo} -> 6
      [] fun \in {LogicalNot, Negate} -> 7
      [] fun = Index -> 8
      [] OTHER -> 9

Operators == BinaryOperators \cup UnaryOperators \cup {Conditional, Index}

IsOperatorCall(e) == e.kind = "call" /\ e.function \in Operators

BindsLooser(e, fun) ==
    IsOperatorCall(e) /\ BindingLevel(e.function) < BindingLevel(fun)

BindsEqually(e, fun) ==
    IsOperatorCall(e) /\ BindingLevel(e.function) = BindingLevel(fun)

\* the binary operators the grammar reads left to right
LeftRecursiveOps == BinaryOperators \ {LogicalAnd, LogicalOr, OldIn}

TwoRuneSymbols == {<<"=", "=">>, <<"!", "=">>, <<"<", "=">>, <<">", "=">>,
                   <<"i", "n">>}

RECURSIVE Tokenize(_)
Tokenize(rs) ==
    IF rs = <<>> THEN <<>>
    ELSE IF Head(rs) = " " THEN Tokenize(Tail(rs))
    ELSE IF Len(rs) >= 2 /\ <<rs[1], rs[2]>> \in TwoRuneSymbols
         THEN <<(<<rs[1], rs[2]>>)>> \o Tokenize(Tail(Tail(rs)))
         ELSE <<(<<rs[1]>>)>> \o Tokenize(Tail(rs))

SymbolsAt(lvl) ==
    {FindReverse(f) : f \in {g \in LeftRecursiveOps : BindingLevel(g) = lvl}}

OperatorOf(sym) == CHOOSE f \in LeftRecursiveOps : FindReverse(f) = sym

ParseFailed == [ok |-> FALSE, tree |-> NoExpr, rest |-> <<>>]

RECURSIVE ParseLevel(_, _), ParseMore(_, _, _), ParsePrimary(_)
\* level := next-level (symbol next-level)*, grouped to the left
ParseLevel(toks, lvl) ==
    IF lvl > 6 THEN ParsePrimary(toks)
    ELSE LET l == ParseLevel(toks, lvl + 1)
         IN  IF l.ok THEN ParseMore(l.tree, l.rest, lvl) ELSE ParseFailed
ParseMore(left, toks, lvl) ==
    IF toks # <<>> /\ Head(toks) \in SymbolsAt(lvl)
    THEN LET r == ParseLevel(Tail(toks), lvl + 1)
         IN  IF r.ok
             THEN ParseMore(Op2(OperatorOf(Head(toks)), left, r.tree),
                            r.rest, lvl)
             ELSE ParseFailed
    ELSE [ok |-> TRUE, tree |-> left, rest |-> toks]
\* primary := identifier | "(" expression ")"
ParsePrimary(toks) ==
    IF toks = <<>> THEN ParseFailed
    ELSE IF Head(toks) = <<"(">>
         THEN LET r == ParseLevel(Tail(toks), 4)
              IN  IF r.ok /\ r.rest # <<>> /\ Head(r.rest) = <<")">>
                  THEN [ok |-> TRUE, tree |-> r.tree, rest |-> Tail(r.rest)]
                  ELSE ParseFailed
         ELSE IF Len(Head(toks)) = 1
                 /\ Head(toks)[1] \in {Names[i] : i \in 1..Len(Names)}
              THEN [ok |-> TRUE, tree |-> IdentExpr(0, Head(toks)),
                    rest |-> Tail(toks)]
              ELSE ParseFailed

Parse(text) ==
    LET r == ParseLevel(Tokenize(text), 4)
    IN  IF r.ok /\ r.rest = <<>> THEN r.tree ELSE NoExpr

(***************************************************************************)
(* What a step of un.visit put in front of the continuation, and how the   *)
(* operands of the node appear in it.                                      *)
(***************************************************************************)
Expansion == SubSeq(stack', 1, Len(stack') - Len(stack) + 1)

VisitPlaces(items) == {i \in 1..Len(items) : items[i].op = "visit"}

\* the place of the n-th visit among the items
VisitPlace(items, n) ==
    CHOOSE i \in VisitPlaces(items) :
        Cardinality({j \in VisitPlaces(items) : j <= i}) = n

Enclosed(items, i) ==
    /\ i > 1 /\ items[i - 1] = Write(<<"(">>)
    /\ i < Len(items) /\ items[i + 1] = Write(<<")">>)

ParenWrites(items) ==
    Cardinality({i \in 1..Len(items) :
                     items[i] \in {Write(<<"(">>), Write(<<")">>)}})

\* the operands are visited in order, each enclosed in parentheses exactly
\* when wrapped says so, and no other parenthesis is written
OperandsWrapped(items, args, wrapped(_)) ==
    /\ Cardinality(VisitPlaces(items)) = Len(args)
    /\ \A n \in 1..Len(args) :
           LET i == VisitPlace(items, n)
           IN  /\ items[i] = Visit(args[n])
               /\ Enclosed(items, i) <=> wrapped(n)
    /\ ParenWrites(items) = 2 * Cardinality({n \in 1..Len(args) : wrapped(n)})

VisitingCall ==
    pc = "visit" /\ stack # <<>> /\ Top.op = "visit" /\ Top.e.kind = "call"

A_Minus_BC == Op2(Subtract, Leaf(1), Op2(Subtract, Leaf(2), Leaf(3)))
AB_Minus_C == Op2(Subtract, Op2(Subtract, Leaf(1), Leaf(2)), Leaf(3))
A_And_BC == Op2(LogicalAnd, Leaf(1), Op2(LogicalAnd, Leaf(2), Leaf(3)))

\* C1, on one step: when un.visit reaches a binary operator call with its
\* two operands, the left operand is wrapped in parentheses exactly when it
\* is an operator call that binds looser than the operator, the right one
\* exactly when it is an operator call that binds looser, or binds equally
\* and the operator is not && or ||; an operand that is no operator call is
\* never wrapped
C1_Expansion ==
    (VisitingCall /\ Top.e.function \in BinaryOperators
                  /\ Len(Top.e.args) = 2)
    => LET fun == Top.e.function
           wrapped(n) ==
               IF n = 1 THEN BindsLooser(Top.e.args[1], fun)
               ELSE \/ BindsLooser(Top.e.args[2], fun)
                    \/ /\ BindsEqually(Top.e.args[2], fun)
                       /\ fun \notin {LogicalAnd, LogicalOr}
       IN  OperandsWrapped(Expansion, Top.e.args, wrapped)

\* C1, on the text returned: a - (b - c) keeps its parentheses, (a - b) - c
\* and a && (b && c) get none
C1_Examples ==
    pc = "done" =>
        /\ expr = A_Minus_BC =>
               ret = Returned(<<"a", " ", "-", " ", "(", "b", " ", "-", " ",
                                "c", ")">>)
        /\ expr = AB_Minus_C =>
               ret = Returned(<<"a", " ", "-", " ", "b", " ", "-", " ", "c">>)
        /\ expr = A_And_BC =>
               ret = Returned(<<"a", " ", "&", "&", " ", "b", " ", "&", "&",
                                " ", "c">>)

\* C1: a binary operator call is printed with its left operand in
\* parentheses exactly when that operand is an operator call binding
\* looser, and its right operand in parentheses exactly when it is an
\* operator call binding looser, or equally under an operator other than
\* && and ||
C1_BinaryParens == [][C1_Expansion]_vars /\ []C1_Examples

\* C1's case: a - (b - c) has been printed, the right operand wrapped
C1_Witness ==
    /\ pc = "done" /\ expr = A_Minus_BC
    /\ ret.kind = "ok" /\ ret.text[5] = "(" /\ ret.text[11] = ")"

OnlyLeftRecursive(e) ==
    LET RECURSIVE Only(_)
        Only(x) ==
            \/ /\ x.kind = "ident" /\ Len(x.name) = 1
               /\ x.name[1] \in {Names[i] : i \in 1..Len(Names)}
            \/ /\ x.kind = "call" /\ x.function \in LeftRecursiveOps
               /\ x.target = NoExpr /\ Len(x.args) = 2
               /\ Only(x.args[1]) /\ Only(x.args[2])
    IN  Only(e)

\* a tree of identifiers and binary calls without its ids, which the text
\* does not hold
RECURSIVE WithoutIds(_)
WithoutIds(e) ==
    IF e.kind = "call"
    THEN Op2(e.function, WithoutIds(e.args[1]), WithoutIds(e.args[2]))
    ELSE IF e.kind = "ident" THEN IdentExpr(0, e.name) ELSE e

\* C2: a tree of identifiers and left-recursive binary operators is printed
\* as a text that the left-associative grammar reads back as the same tree
C2_RoundTrip ==
    (pc = "done" /\ OnlyLeftRecursive(expr) /\ info.lineOffsets = <<>>)
    => ret.kind = "ok" /\ Parse(ret.text) = WithoutIds(expr)

\* C2's case: a tree three operators deep, grouped to the right, has been
\* printed with both pairs of parentheses and read back
C2_Witness ==
    /\ pc = "done"
    /\ expr = Op2(Subtract, Leaf(1),
                  Op2(Subtract, Leaf(2), Op2(Add, Leaf(3), Leaf(4))))
    /\ ret = Returned(<<"a", " ", "-", " ", "(", "b", " ", "-", " ", "(",
                        "c", " ", "+", " ", "d", ")", ")">>)
    /\ Parse(ret.text) = expr

\* C3, on one step: each of the three operands of a conditional is wrapped
\* in parentheses exactly when it is itself a conditional call
C3_Expansion ==
    (VisitingCall /\ Top.e.function = Conditional /\ Len(Top.e.args) = 3)
    => LET wrapped(n) == /\ Top.e.args[n].kind = "call"
                         /\ Top.e.args[n].function = Conditional
       IN  OperandsWrapped(Expansion, Top.e.args, wrapped)

\* C3: every operand of a conditional that is a conditional call is
\* printed in parentheses, whatever its position, and no other operand is
C3_ConditionalParens == [][C3_Expansion]_vars

\* C3's case: a ? (b ? c : d) : e has been printed, the nested conditional
\* of the then-branch in parentheses
C3_Witness ==
    /\ pc = "done"
    /\ expr = Op3(Conditional, Leaf(1),
                  Op3(Conditional, Leaf(2), Leaf(3), Leaf(4)), Leaf(5))
    /\ ret = Returned(<<"a", "?", " ", "(", "b", "?", " ", "c", " ", ":",
                        " ", "d", ")", " ", ":", " ", "e">>)
(***************************************************************************)
(* Trees: the nodes un.visit reaches, and the trees that are well formed.  *)
(***************************************************************************)
RequiredArgs(fun) ==
    CASE fun = Conditional -> 3
      [] fun = Index -> 2
      [] fun \in BinaryOperators -> 2
      [] fun \in UnaryOperators -> 1
      [] OTHER -> 0

RECURSIVE EntryExprs(_, _)
EntryExprs(es, isMsg) ==
    IF es = <<>> THEN <<>>
    ELSE (IF isMsg THEN <<Head(es).value>>
          ELSE <<Head(es).mapKey, Head(es).value>>)
         \o EntryExprs(Tail(es), isMsg)

Children(e) ==
    CASE e.kind = "call" ->
            (IF e.target # NoExpr /\ ~IsOperatorCall(e)
             THEN <<e.target>> ELSE <<>>) \o e.args
      [] e.kind = "list" -> e.elements
      [] e.kind = "select" -> <<e.operand>>
      [] e.kind = "struct" -> EntryExprs(e.entries, e.messageName # <<>>)
      [] OTHER -> <<>>

RECURSIVE HasComprehension(_)
HasComprehension(e) ==
    \/ e.kind = "comprehension"
    \/ \E i \in 1..Len(Children(e)) : HasComprehension(Children(e)[i])

\* an operator call with fewer arguments than the operator takes, here or
\* below
RECURSIVE ShortOfArguments(_)
ShortOfArguments(e) ==
    \/ IsOperatorCall(e) /\ Len(e.args) < RequiredArgs(e.function)
    \/ \E i \in 1..Len(Children(e)) : ShortOfArguments(Children(e)[i])

\* every operator call has the arguments of its operator, every node a
\* kind and every literal a type
RECURSIVE WellFormed(_)
WellFormed(e) ==
    /\ e.kind \in {"call", "comprehension", "const", "ident", "list",
                   "select", "struct"}
    /\ IsOperatorCall(e) => Len(e.args) = RequiredArgs(e.function)
    /\ e.kind = "const" =>
           e.ckind \in {"bool", "bytes", "double", "int64", "null", "string",
                       "uint64"}
    /\ \A i \in 1..Len(Children(e)) : WellFormed(Children(e)[i])

\* C4: a tree, well formed otherwise, that holds a comprehension at the
\* root or at any depth makes Unparse fail with the "unimplemented" error
\* and return no text, not even the text written before the comprehension
C4_ComprehensionFails ==
    (pc = "done" /\ HasComprehension(expr) /\ WellFormed(expr))
    => ret = ReturnedError("unimplemented")

\* C4's case: f(a,<comprehension>) has failed after "f(a," was written,
\* and nothing of it is returned
C4_Witness ==
    /\ pc = "done"
    /\ expr = CallExpr(3, <<"f">>, NoExpr, <<A, Comp>>)
    /\ str = <<"f", "(", "a", ",">>
    /\ ret.kind = "error" /\ ret.msg = "unimplemented" /\ ret.text = <<>>

\* C5: a tree with an operator call short of arguments makes Unparse
\* return an error; the call never aborts
C5_MalformedReturnsError ==
    (pc = "done" /\ ShortOfArguments(expr)) => ret.kind = "error"

\* C6, on one step: padding for a node of recorded offset p, the text
\* holding n characters, leaves max(n, p) characters: the n characters
\* unchanged, then spaces only
C6_PadStep ==
    (pc = "visit" /\ stack # <<>> /\ Top.op = "pad")
    => LET n == Len(str)
           p == pos(Top.id)
       IN  /\ Len(str') = Max(n, p)
           /\ SubSeq(str', 1, n) = str
           /\ \A i \in (n + 1)..Len(str') : str'[i] = " "

\* C6: every padding step of a call leaves max(n, p) characters, whatever
\* the text written before holds
C6_PadToOffset == [][C6_PadStep]_vars

\* the first space of txt at index i (from 0) or after it; 0 when none
FirstSpaceFrom(txt, i) ==
    LET at == {k \in 1..Len(txt) : k - 1 >= i /\ txt[k] = " "}
    IN  IF at = {} THEN 0 ELSE CHOOSE k \in at : \A j \in at : k <= j

BreaksAdded(old, new) ==
    {k \in 1..Len(old) : old[k] # new[k]}

\* C7 as stated: for each recorded line offset, one offset alone included,
\* the first space at or after the offset has become a line break
C7_BreakAtOffset ==
    (pc = "done" /\ ret.kind = "ok")
    => \A k \in 1..Len(info.lineOffsets) :
           LET j == FirstSpaceFrom(str, info.lineOffsets[k])
           IN  j # 0 => ret.text[j] = "\n"

\* C7, amended: with fewer than two line offsets recorded the text is
\* returned as generated; with two or more, for each offset br the first
\* space at or after index br-1 has become a line break, and no more
\* characters have changed than offsets are recorded
C7_BreakBeforeOffset ==
    (pc = "done" /\ ret.kind = "ok")
    => IF Len(info.lineOffsets) <= 1 THEN ret.text = str
       ELSE /\ \A k \in 1..Len(info.lineOffsets) :
                   LET j == FirstSpaceFrom(str, info.lineOffsets[k] - 1)
                   IN  j # 0 => ret.text[j] = "\n"
            /\ Len(ret.text) = Len(str)
            /\ Cardinality(BreaksAdded(str, ret.text))
                   <= Len(info.lineOffsets)

\* C7's case: "a  + b" with the offsets 2 and 6: the offset 2 is the index
\* of a space, and the space before it, at index 1, is the line break
C7_Witness ==
    /\ pc = "done"
    /\ info.lineOffsets = <<2, 6>>
    /\ str = <<"a", " ", " ", "+", " ", "b">>
    /\ ret = Returned(<<"a", "\n", " ", "+", " ", "b">>)

\* C8: whatever line offsets are recorded, offset 0 and offsets past the
\* end included, a text is returned, as long as the text generated and
\* differing from it only where a space has become a line break
C8_BreaksNeverFail ==
    (pc = "done" /\ WellFormed(expr) /\ ~HasComprehension(expr))
    => /\ ret.kind = "ok"
       /\ Len(ret.text) = Len(str)
       /\ \A k \in BreaksAdded(str, ret.text) :
              str[k] = " " /\ ret.text[k] = "\n"
(***************************************************************************)
(* unescape(value, isBytes): the quoted literal decoded to code points     *)
(* (text) or to bytes.  A decoded unit is a number.                        *)
(***************************************************************************)
\* the bytes of a code point in UTF-8
UTF8(cp) ==
    IF cp < 128 THEN <<cp>>
    ELSE IF cp < 2048 THEN <<192 + (cp \div 64), 128 + (cp % 64)>>
    ELSE IF cp < 65536
    THEN <<224 + (cp \div 4096), 128 + ((cp \div 64) % 64), 128 + (cp % 64)>>
    ELSE <<240 + (cp \div 262144), 128 + ((cp \div 4096) % 64),
           128 + ((cp \div 64) % 64), 128 + (cp % 64)>>

OctalDigits == {"0", "1", "2", "3", "4", "5", "6", "7"}
HexDigits ==
    OctalDigits \cup {"8", "9", "a", "b", "c", "d", "e", "f",
                      "A", "B", "C", "D", "E", "F"}

HexDigitValue(d) ==
    CASE d \in {"a", "A"} -> 10
      [] d \in {"b", "B"} -> 11
      [] d \in {"c", "C"} -> 12
      [] d \in {"d", "D"} -> 13
      [] d \in {"e", "E"} -> 14
      [] d \in {"f", "F"} -> 15
      [] OTHER -> CodePoint(d) - CodePoint("0")

\* a slip of the numeral: the digits read in base 10
RECURSIVE NumeralBase10(_, _)
NumeralBase10(ds, base) ==
    IF ds = <<>> THEN 0
    ELSE NumeralBase10(SubSeq(ds, 1, Len(ds) - 1), base) * 10
         + HexDigitValue(ds[Len(ds)])

\* the value of a numeral in a base
RECURSIVE Numeral(_, _)
Numeral(ds, base) ==
    IF ds = <<>> THEN 0
    ELSE Numeral(SubSeq(ds, 1, Len(ds) - 1), base) * base
         + HexDigitValue(ds[Len(ds)])

\* how many of the first runes of s, at most n, are in the set
RECURSIVE LeadingIn(_, _, _)
LeadingIn(s, set, n) ==
    IF n = 0 \/ s = <<>> \/ Head(s) \notin set THEN 0
    ELSE 1 + LeadingIn(Tail(s), set, n - 1)

SimpleEscapes == {"a", "b", "f", "n", "r", "t", "v", "'", "\"", "\\", "?"}

SimpleEscapeValue(c) ==
    CASE c = "a" -> 7
      [] c = "b" -> 8
      [] c = "f" -> 12
      [] c = "n" -> 10
      [] c = "r" -> 13
      [] c = "t" -> 9
      [] c = "v" -> 11
      [] OTHER -> CodePoint(c)

CharFailed == [ok |-> FALSE, units |-> <<>>, rest |-> <<>>]
CharDecoded(units, rest) == [ok |-> TRUE, units |-> units, rest |-> rest]

\* the escape of n hexadecimal digits after the two runes of its head
HexEscape(s, n) ==
    LET t == SubSeq(s, 3, Len(s))
    IN  IF LeadingIn(t, HexDigits, n) < n THEN CharFailed
        ELSE CharDecoded(<<Numeral(SubSeq(t, 1, n), 16)>>,
                         SubSeq(t, n + 1, Len(t)))

\* a slip of the unicode escape: decoded in byte mode too
UnicodeEscapeAnyMode(s, n, bytes) == HexEscape(s, n)

\* the escapes \u and \U: an error in byte mode
UnicodeEscape(s, n, bytes) == IF bytes THEN CharFailed ELSE HexEscape(s, n)

\* one step of the scan of the body: a literal rune or an escape
unescapeChar(s, bytes) ==
    IF Head(s) # "\\"
    THEN CharDecoded(IF bytes THEN UTF8(CodePoint(Head(s)))
                     ELSE <<CodePoint(Head(s))>>, Tail(s))
    ELSE IF Len(s) < 2 THEN CharFailed
    ELSE LET c == s[2]
             t == Tail(s)
         IN  CASE c \in SimpleEscapes ->
                     CharDecoded(<<SimpleEscapeValue(c)>>, Tail(t))
               [] c \in OctalDigits ->
                     LET n == LeadingIn(t, OctalDigits, 3)
                         v == Numeral(SubSeq(t, 1, n), 8)
                     IN  IF v > 255 THEN CharFailed
                         ELSE CharDecoded(<<v>>, SubSeq(t, n + 1, Len(t)))
               [] c = "x" -> HexEscape(s, 2)
               [] c = "u" -> UnicodeEscape(s, 4, bytes)
               [] c = "U" -> UnicodeEscape(s, 8, bytes)
               [] OTHER -> CharFailed

Quotes == {"'", "\""}

\* the delimiters: three quotes on each side, or one
IsTripleQuoted(tok) ==
    /\ Len(tok) >= 6
    /\ tok[1] \in Quotes
    /\ \A i \in {2, 3, Len(tok) - 2, Len(tok) - 1, Len(tok)} : tok[i] = tok[1]

IsQuoted(tok) == Len(tok) >= 2 /\ tok[1] \in Quotes /\ tok[Len(tok)] = tok[1]

Body(tok) ==
    IF IsTripleQuoted(tok) THEN SubSeq(tok, 4, Len(tok) - 3)
    ELSE SubSeq(tok, 2, Len(tok) - 1)

Decoded(units) == [kind |-> "ok", text |-> units, msg |-> ""]
DecodeError(msg) == [kind |-> "error", text |-> <<>>, msg |-> msg]

\* the delimiters are classified and stripped
Unquote ==
    /\ pc = "unquote"
    /\ IF IsQuoted(token)
       THEN /\ value' = Body(token)
            /\ pc' = "scan"
            /\ dret' = dret
       ELSE /\ dret' = DecodeError("unable to unescape string")
            /\ pc' = "done"
            /\ value' = value
    /\ UNCHANGED <<token, isBytes, buf>>
    /\ UNCHANGED unparseVars

\* one rune or escape of the body is decoded
UnescapeChar ==
    /\ pc = "scan" /\ value # <<>>
    /\ unescapeChar(value, isBytes).ok
    /\ buf' = buf \o unescapeChar(value, isBytes).units
    /\ value' = unescapeChar(value, isBytes).rest
    /\ UNCHANGED <<pc, token, isBytes, dret>>
    /\ UNCHANGED unparseVars

\* an escape is illegal: no value is returned
UnescapeFail ==
    /\ pc = "scan" /\ value # <<>>
    /\ ~unescapeChar(value, isBytes).ok
    /\ dret' = DecodeError("unable to unescape string")
    /\ pc' = "done"
    /\ UNCHANGED <<token, isBytes, value, buf>>
    /\ UNCHANGED unparseVars

\* the body is scanned: the units are returned
UnescapeReturn ==
    /\ pc = "scan" /\ value = <<>>
    /\ dret' = Decoded(buf)
    /\ pc' = "done"
    /\ UNCHANGED <<token, isBytes, value, buf>>
    /\ UNCHANGED unparseVars

(***************************************************************************)
(* The inputs of unescape.                                                 *)
(***************************************************************************)
\* the octal and hexadecimal escapes, each with the value it names
OctHexPieces ==
    {[text |-> <<"\\", "3", "0", "3">>, val |-> 195],
     [text |-> <<"\\", "2", "7", "7">>, val |-> 191],
     [text |-> <<"\\", "3", "7", "7">>, val |-> 255],
     [text |-> <<"\\", "1", "2">>, val |-> 10],
     [text |-> <<"\\", "7">>, val |-> 7],
     [text |-> <<"\\", "x", "f", "f">>, val |-> 255],
     [text |-> <<"\\", "x", "c", "3">>, val |-> 195]}

Pieces ==
    {p.text : p \in OctHexPieces}
    \cup {<<"a">>, <<">">>, <<"U+00FF">>,
          <<"\\", "n">>, <<"\\", "\\">>,
          <<"\\", "u", "0", "0", "f", "f">>,
          <<"\\", "U", "0", "0", "0", "0", "0", "0", "f", "f">>,
          <<"\\", ">">>}

Bodies == {Concat(ps) : ps \in SeqsUpTo(Pieces, MaxPieces)}

DQ(body) == <<"\"">> \o body \o <<"\"">>
SQ(body) == <<"'">> \o body \o <<"'">>
TripleSQ(body) == <<"'", "'", "'">> \o body \o <<"'", "'", "'">>
TripleDQ(body) == <<"\"", "\"", "\"">> \o body \o <<"\"", "\"", "\"">>

\* the literals of unescape_test.go
TestLegalBody ==
    <<"\\", "a", "\\", "b", "\\", "f", "\\", "n", "\\", "r", "\\", "t",
      "\\", "v", "\\", "'", "\\", "\"", "\\", "\\", "\\", "?", " ">>
\* "\a\b\f\n\r\t\v\'\"\\\? Legal escapes"
TestLegalToken ==
    DQ(TestLegalBody \o <<"L", "e", "g", "a", "l", " ",
                          "e", "s", "c", "a", "p", "e", "s">>)
\* "\a\b\f\n\r\t\v\'\"\\\? Illegal escape \>"
TestIllegalToken ==
    DQ(TestLegalBody \o <<"I", "l", "l", "e", "g", "a", "l", " ",
                          "e", "s", "c", "a", "p", "e", " ", "\\", ">">>)
TestTokens ==
    {SQ(<<"h", "e", "l", "l", "o">>),
     DQ(<<>>),
     DQ(<<"\\", "\\", "\\", "\"">>),
     DQ(<<"\\", "\\">>),
     TripleSQ(<<"x", "'", "'", "x">>),
     TripleDQ(<<"x", "\"", "\"", "x">>),
     DQ(<<"\\", "u", "2", "6", "3", "A", "\\", "u", "2", "6", "3", "A">>),
     TestLegalToken,
     TestIllegalToken,
     DQ(<<"a", "b", "c">>),
     DQ(<<"\\", "x", "c", "3", "\\", "x", "b", "f">>)}

\* literals whose quotes do not match
MalformedTokens == {<<"\"">>, <<"\"", "a", "'">>, <<"a", "b">>, <<>>}

Tokens ==
    {DQ(b) : b \in Bodies}
    \cup {TripleSQ(b) : b \in {Concat(ps) : ps \in SeqsUpTo(Pieces, 1)}}
    \cup {SQ(b) : b \in {Concat(ps) : ps \in SeqsUpTo(Pieces, 1)}}
    \cup TestTokens \cup MalformedTokens

InitUnescape ==
    /\ token \in Tokens
    /\ isBytes \in BOOLEAN
    /\ pc = "unquote"
    /\ value = <<>>
    /\ buf = <<>>
    /\ dret = NoResult
    /\ expr = NoExpr /\ info = NoInfo /\ stack = <<>> /\ str = <<>>
    /\ ret = NoResult

NextUnescape ==
    \/ Unquote
    \/ UnescapeChar
    \/ UnescapeFail
    \/ UnescapeReturn

SpecUnescape == InitUnescape /\ [][NextUnescape]_vars

\* what the tests of unescape_test.go expect
TestsPass ==
    pc = "done" =>
        /\ (token = SQ(<<"h", "e", "l", "l", "o">>) /\ ~isBytes)
               => dret = Decoded(<<104, 101, 108, 108, 111>>)
        /\ (token = DQ(<<>>) /\ ~isBytes) => dret = Decoded(<<>>)
        /\ (token = DQ(<<"\\", "\\", "\\", "\"">>) /\ ~isBytes)
               => dret = Decoded(<<92, 34>>)
        /\ (token = DQ(<<"\\", "\\">>) /\ ~isBytes) => dret = Decoded(<<92>>)
        /\ (token = TripleSQ(<<"x", "'", "'", "x">>) /\ ~isBytes)
               => dret = Decoded(<<120, 39, 39, 120>>)
        /\ (token = TripleDQ(<<"x", "\"", "\"", "x">>) /\ ~isBytes)
               => dret = Decoded(<<120, 34, 34, 120>>)
        /\ (token = DQ(<<"\\", "3", "0", "3", "\\", "2", "7", "7">>))
               => dret = Decoded(<<195, 191>>)
        /\ (token = DQ(<<"\\", "3", "7", "7">>)) => dret = Decoded(<<255>>)
        /\ (token = DQ(<<"\\", "u", "2", "6", "3", "A",
                         "\\", "u", "2", "6", "3", "A">>) /\ ~isBytes)
               => dret = Decoded(<<9786, 9786>>)
        /\ (token = TestLegalToken /\ ~isBytes)
               => dret = Decoded(<<7, 8, 12, 10, 13, 9, 11, 39, 34, 92, 63,
                                   32, 76, 101, 103, 97, 108, 32, 101, 115,
                                   99, 97, 112, 101, 115>>)
        /\ (token = TestIllegalToken /\ ~isBytes)
               => dret.kind = "error"
        /\ (token = DQ(<<"a", "b", "c">>) /\ isBytes)
               => dret = Decoded(<<97, 98, 99>>)
        /\ (token = DQ(<<"U+00FF">>) /\ isBytes)
               => dret = Decoded(<<195, 191>>)
        /\ (token = DQ(<<"\\", "x", "c", "3", "\\", "x", "b", "f">>)
            /\ isBytes)
               => dret = Decoded(<<195, 191>>)
        /\ (token = DQ(<<"\\", "x", "f", "f">>)) => dret = Decoded(<<255>>)
        /\ (token = DQ(<<"\\", "u", "0", "0", "f", "f">>) /\ isBytes)
               => dret.kind = "error"
\* the bodies made of octal and hexadecimal escapes only, each with the
\* values its escapes name
OctHexBodies ==
    {[body |-> Concat([i \in 1..Len(ps) |-> ps[i].text]),
      vals |-> [i \in 1..Len(ps) |-> ps[i].val]] :
         ps \in SeqsUpTo(OctHexPieces, MaxPieces)}

\* C9: every octal escape of one to three digits and every hexadecimal
\* escape of two digits is decoded, on its own, to one unit whose value is
\* the value of the escape: k escapes give k code points in text mode and
\* k bytes in byte mode
C9_OneUnitPerEscape ==
    (pc = "done" /\ IsQuoted(token))
    => \A b \in OctHexBodies :
           Body(token) = b.body => dret = Decoded(b.vals)

\* C9's case: "\303\277" has been decoded in text mode to the two code
\* points U+00C3 and U+00BF
C9_Witness ==
    /\ pc = "done" /\ ~isBytes
    /\ token = DQ(<<"\\", "3", "0", "3", "\\", "2", "7", "7">>)
    /\ dret = Decoded(<<195, 191>>)

\* the body holds a backslash followed by a character that starts no
\* escape of the mode
RECURSIVE HasIllegalEscape(_, _)
HasIllegalEscape(body, bytes) ==
    IF body = <<>> THEN FALSE
    ELSE IF Head(body) # "\\" THEN HasIllegalEscape(Tail(body), bytes)
    ELSE IF Len(body) < 2 THEN TRUE
    ELSE IF body[2] \in SimpleEscapes \cup OctalDigits \cup {"x"}
                        \cup (IF bytes THEN {} ELSE {"u", "U"})
         THEN HasIllegalEscape(Tail(Tail(body)), bytes)
         ELSE TRUE

\* C10: a literal whose body holds an escape that is illegal for the mode
\* (\> in both modes, \u and \U in byte mode), whatever comes before it, is
\* an error and no value is returned; \u decodes in text mode
C10_IllegalEscapeFails ==
    pc = "done" =>
        /\ (IsQuoted(token) /\ HasIllegalEscape(Body(token), isBytes))
               => dret.kind = "error" /\ dret.text = <<>>
        /\ (token = DQ(<<"\\", "u", "0", "0", "f", "f">>) /\ ~isBytes)
               => dret = Decoded(<<255>>)

\* C10's case: "a\n\u00ff" in byte mode: two bytes were decoded before the
\* unicode escape, and none is returned
C10_Witness ==
    /\ pc = "done" /\ isBytes
    /\ token = DQ(<<"a", "\\", "n", "\\", "u", "0", "0", "f", "f">>)
    /\ buf = <<97, 10>>
    /\ dret.kind = "error" /\ dret.text = <<>>
(***************************************************************************)
(* The spacing of a conditional.                                           *)
(***************************************************************************)
\* visitCallConditional is about to write the question mark
WritingQuestionMark ==
    pc = "visit" /\ stack # <<>> /\ Top = Write(<<"?", " ">>)

\* C11: a conditional call renders as the condition, " ? ", the then-branch,
\* " : " and the else-branch: whenever the question mark of a conditional is
\* written, the text written so far ends in a space, whatever the position
\* map records for the conditional node (no offset, or one already passed),
\* and the conditional of a, b, c alone is returned as a, one space or
\* more, then "? b : c"
C11_ConditionalSpacing ==
    /\ WritingQuestionMark => (str # <<>> /\ str[Len(str)] = " ")
    /\ (pc = "done" /\ expr = ConditionalTree)
         => \E n \in 1..(MaxPos + 1) :
                ret = Returned(<<"a">> \o Spaces(n)
                               \o <<"?", " ", "b", " ", ":", " ", "c">>)

====
